---- MODULE Spec2Model ----
(***************************************************************************)
(* A model of the bytecode generator (generator.rs), the register machine  *)
(* (process.rs) and the process host (vm.rs).                              *)
(*                                                                         *)
(* Register files are functions over 0..n-1, instruction sequences are     *)
(* TLA+ sequences, so the instruction at Rust index i is program[i + 1].   *)
(***************************************************************************)
EXTENDS Integers, Sequences, FiniteSets, TLC

VARIABLES processes, gen, ast, loaded, pc, cur, result, trace, conds, runs

vars == <<processes, gen, ast, loaded, pc, cur, result, trace, conds, runs>>

(***************************************************************************)
(* Bounds of the model.                                                    *)
(***************************************************************************)
\* instructions fetched by one call of run_program before the model stops following it
MaxSteps == 50
\* calls of run_program in one behaviour
MaxRuns == 1
\* size of the register file given to a hand-written program
HandRegisters == 3
\* processes spawned in one VM of the host-level specification
MaxProcs == 2
\* calls of run_program in one behaviour of the host-level specification
MaxVMRuns == 2

(***************************************************************************)
(* f64.  A float is NaN, a signed infinity, or a signed finite value n/d   *)
(* in lowest terms (so +0.0 and -0.0 are distinct).  Arithmetic follows    *)
(* IEEE 754 for the special values and signed zeros and is exact on the    *)
(* finite values; all finite values the model's programs compute from      *)
(* small integer literals by +, -, * are exactly representable doubles.    *)
(***************************************************************************)
RECURSIVE GCD(_, _)
GCD(a, b) == IF b = 0 THEN a ELSE GCD(b, a % b)

NaN == [c |-> "nan"]
Inf(s) == [c |-> "inf", s |-> s]
Fin(s, n, d) ==
    IF n = 0 THEN [c |-> "fin", s |-> s, n |-> 0, d |-> 1]
    ELSE LET g == GCD(n, d) IN [c |-> "fin", s |-> s, n |-> n \div g, d |-> d \div g]

\* the double of an integer literal
F(i) == IF i < 0 THEN Fin(-1, -i, 1) ELSE Fin(1, i, 1)

IsZero(a) == a.c = "fin" /\ a.n = 0

Neg(a) == IF a.c = "nan" THEN a ELSE [a EXCEPT !.s = -a.s]

\* v1 + v2
FAdd(a, b) ==
    IF a.c = "nan" \/ b.c = "nan" THEN NaN
    ELSE IF a.c = "inf" /\ b.c = "inf" THEN (IF a.s = b.s THEN a ELSE NaN)
    ELSE IF a.c = "inf" THEN a
    ELSE IF b.c = "inf" THEN b
    ELSE LET num == a.s * a.n * b.d + b.s * b.n * a.d
             den == a.d * b.d
         IN  IF num = 0
             THEN Fin(IF a.s = -1 /\ b.s = -1 THEN -1 ELSE 1, 0, 1)
             ELSE IF num < 0 THEN Fin(-1, -num, den) ELSE Fin(1, num, den)

\* v1 - v2
FSub(a, b) == FAdd(a, Neg(b))

\* v1 * v2
FMul(a, b) ==
    IF a.c = "nan" \/ b.c = "nan" THEN NaN
    ELSE IF (a.c = "inf" /\ IsZero(b)) \/ (IsZero(a) /\ b.c = "inf") THEN NaN
    ELSE IF a.c = "inf" \/ b.c = "inf" THEN Inf(a.s * b.s)
    ELSE Fin(a.s * b.s, a.n * b.n, a.d * b.d)

\* v1 / v2: a zero divisor yields an infinity or NaN, as f64 division does
FDiv(a, b) ==
    IF a.c = "nan" \/ b.c = "nan" THEN NaN
    ELSE IF a.c = "inf" /\ b.c = "inf" THEN NaN
    ELSE IF a.c = "inf" THEN Inf(a.s * b.s)
    ELSE IF b.c = "inf" THEN Fin(a.s * b.s, 0, 1)
    ELSE IF IsZero(b) THEN (IF IsZero(a) THEN NaN ELSE Inf(a.s * b.s))
    ELSE Fin(a.s * b.s, a.n * b.d, a.d * b.n)

\* val > 0.0
GtZero(a) == \/ a.c = "inf" /\ a.s = 1
             \/ a.c = "fin" /\ a.s = 1 /\ a.n > 0

(***************************************************************************)
(* f64::to_string (Display): "NaN", "inf", "-inf"; a finite value prints   *)
(* its sign ("-0" for negative zero), the integer digits and, when it is   *)
(* not an integer, "." and the fraction digits.  Fractions that do not     *)
(* terminate are cut after FracDigits digits.                              *)
(***************************************************************************)
Digit(k) == CASE k = 0 -> "0" [] k = 1 -> "1" [] k = 2 -> "2" [] k = 3 -> "3"
              [] k = 4 -> "4" [] k = 5 -> "5" [] k = 6 -> "6" [] k = 7 -> "7"
              [] k = 8 -> "8" [] k = 9 -> "9"

RECURSIVE NatToString(_)
NatToString(k) == IF k < 10 THEN Digit(k) ELSE NatToString(k \div 10) \o Digit(k % 10)

FracDigits == 16

RECURSIVE FracToString(_, _, _)
FracToString(r, d, left) ==
    IF r = 0 \/ left = 0 THEN ""
    ELSE Digit((r * 10) \div d) \o FracToString((r * 10) % d, d, left - 1)

to_string(a) ==
    IF a.c = "nan" THEN "NaN"
    ELSE IF a.c = "inf" THEN (IF a.s = 1 THEN "inf" ELSE "-inf")
    ELSE (IF a.s = -1 THEN "-" ELSE "")
         \o NatToString(a.n \div a.d)
         \o (IF a.n % a.d = 0 THEN ""
             ELSE "." \o FracToString(a.n % a.d, a.d, FracDigits))

(***************************************************************************)
(* Value                                                                   *)
(***************************************************************************)
Empty == [t |-> "Empty"]
Number(f) == [t |-> "Number", v |-> f]
Boolean(b) == [t |-> "Boolean", b |-> b]
String(s) == [t |-> "String", s |-> s]

(***************************************************************************)
(* Instruction; a Register is its index.                                   *)
(***************************************************************************)
Halt == [op |-> "Halt"]
Load(reg, value) == [op |-> "Load", reg |-> reg, value |-> value]
Store(name, reg) == [op |-> "Store", name |-> name, reg |-> reg]
LoadVar(reg, name) == [op |-> "LoadVar", reg |-> reg, name |-> name]
Add(dest, reg1, reg2) == [op |-> "Add", dest |-> dest, reg1 |-> reg1, reg2 |-> reg2]
Sub(dest, reg1, reg2) == [op |-> "Sub", dest |-> dest, reg1 |-> reg1, reg2 |-> reg2]
Mul(dest, reg1, reg2) == [op |-> "Mul", dest |-> dest, reg1 |-> reg1, reg2 |-> reg2]
Div(dest, reg1, reg2) == [op |-> "Div", dest |-> dest, reg1 |-> reg1, reg2 |-> reg2]
Jmp(dest) == [op |-> "Jmp", dest |-> dest]
JmpFalse(reg, dest) == [op |-> "JmpFalse", reg |-> reg, dest |-> dest]
DbgPrintReg(reg) == [op |-> "DbgPrintReg", reg |-> reg]
DbgPrintVar(name) == [op |-> "DbgPrintVar", name |-> name]

(***************************************************************************)
(* VMError, and the other ways a call of run_program ends.                 *)
(***************************************************************************)
Ok == [e |-> "Ok"]
TypeMisMatch(pid) == [e |-> "TypeMisMatch", pid |-> pid]
DivisionByZero(pid) == [e |-> "DivisionByZero", pid |-> pid]
BadAddress(pid) == [e |-> "BadAddress", pid |-> pid]
UndefinedVariable(pid, name) == [e |-> "UndefinedVariable", pid |-> pid, name |-> name]
\* a Rust panic: index out of bounds, unwrap on None, arithmetic overflow in a debug build
Panic == [e |-> "panic"]

(***************************************************************************)
(* Process                                                                 *)
(***************************************************************************)
\* a process whose id is always 0
ProcessNewZero(pid) ==
    [pid |-> 0, registers |-> <<>>, program |-> <<>>, variables |-> <<>>,
     ip |-> 0, halt |-> FALSE]

ProcessNew(pid) ==
    [pid |-> pid, registers |-> <<>>, program |-> <<>>, variables |-> <<>>,
     ip |-> 0, halt |-> FALSE]

\* a register file one slot short
EmptyRegistersShort(max_registers) == [r \in 0 .. max_registers - 2 |-> Empty]

\* vec![Value::Empty; max_registers]
EmptyRegisters(max_registers) == [r \in 0 .. max_registers - 1 |-> Empty]

\* load_program that starts the process afresh, variables included
load_programFresh(p, program, max_registers) ==
    [p EXCEPT !.program = program, !.registers = EmptyRegisters(max_registers),
              !.variables = <<>>]

load_program(p, program, max_registers) ==
    [p EXCEPT !.program = program, !.registers = EmptyRegisters(max_registers)]

\* One outcome of execute: the process afterwards and Ok or the error returned.
Outcome(p, res) == [p |-> p, res |-> res]

\* self.registers[reg.index] panics when the index is outside the register file
InFile(p, reg) == reg \in DOMAIN p.registers

\* self.registers[reg.index] = value
WriteRegister(p, reg, value) ==
    IF InFile(p, reg)
    THEN {Outcome([p EXCEPT !.registers[reg] = value], Ok)}
    ELSE {Outcome(p, Panic)}

IsNumber(v) == v.t = "Number"
IsString(v) == v.t = "String"

\* Add that keeps the operand order when the Number comes first
executeAddInOrder(p, i) ==
    IF ~InFile(p, i.reg1) \/ ~InFile(p, i.reg2) THEN {Outcome(p, Panic)}
    ELSE LET value1 == p.registers[i.reg1]
             value2 == p.registers[i.reg2]
         IN  IF IsNumber(value1) /\ IsNumber(value2)
                 THEN WriteRegister(p, i.dest, Number(FAdd(value1.v, value2.v)))
             ELSE IF IsString(value1) /\ IsString(value2)
                 THEN WriteRegister(p, i.dest, String(value1.s \o value2.s))
             ELSE IF IsString(value1) /\ IsNumber(value2)
                 THEN WriteRegister(p, i.dest, String(value1.s \o to_string(value2.v)))
             ELSE IF IsNumber(value1) /\ IsString(value2)
                 THEN WriteRegister(p, i.dest, String(to_string(value1.v) \o value2.s))
             ELSE {Outcome(p, TypeMisMatch(p.pid))}

executeAdd(p, i) ==
    IF ~InFile(p, i.reg1) \/ ~InFile(p, i.reg2) THEN {Outcome(p, Panic)}
    ELSE LET value1 == p.registers[i.reg1]
             value2 == p.registers[i.reg2]
         IN  IF IsNumber(value1) /\ IsNumber(value2)
                 THEN WriteRegister(p, i.dest, Number(FAdd(value1.v, value2.v)))
             ELSE IF IsString(value1) /\ IsString(value2)
                 THEN WriteRegister(p, i.dest, String(value1.s \o value2.s))
             ELSE IF IsString(value1) /\ IsNumber(value2)
                 THEN WriteRegister(p, i.dest, String(value1.s \o to_string(value2.v)))
             ELSE IF IsNumber(value1) /\ IsString(value2)
                 THEN WriteRegister(p, i.dest, String(value2.s \o to_string(value1.v)))
             ELSE {Outcome(p, TypeMisMatch(p.pid))}

\* value1 - value2, value1 * value2, value1 / value2
NumericResult(op, value1, value2) ==
    CASE op = "Sub" -> FSub(value1, value2)
      [] op = "Mul" -> FMul(value1, value2)
      [] op = "Div" -> FDiv(value1, value2)

\* Sub, Mul and Div that match only the first operand and take any other second
\* operand as zero
executeNumericFirstOnly(p, i) ==
    IF ~InFile(p, i.reg1) THEN {Outcome(p, Panic)}
    ELSE IF ~IsNumber(p.registers[i.reg1]) THEN {Outcome(p, TypeMisMatch(p.pid))}
    ELSE IF ~InFile(p, i.reg2) THEN {Outcome(p, Panic)}
    ELSE WriteRegister(p, i.dest,
                       Number(NumericResult(i.op, p.registers[i.reg1].v,
                                            IF IsNumber(p.registers[i.reg2])
                                            THEN p.registers[i.reg2].v ELSE F(0))))

\* Sub, Mul and Div: both operands must be Number; the first is matched first.
executeNumeric(p, i) ==
    IF ~InFile(p, i.reg1) THEN {Outcome(p, Panic)}
    ELSE IF ~IsNumber(p.registers[i.reg1]) THEN {Outcome(p, TypeMisMatch(p.pid))}
    ELSE IF ~InFile(p, i.reg2) THEN {Outcome(p, Panic)}
    ELSE IF ~IsNumber(p.registers[i.reg2]) THEN {Outcome(p, TypeMisMatch(p.pid))}
    ELSE WriteRegister(p, i.dest,
                       Number(NumericResult(i.op, p.registers[i.reg1].v,
                                            p.registers[i.reg2].v)))

\* JmpFalse without the `- 1` that compensates the loop's `ip += 1`
executeJmpFalseUncompensated(p, i) ==
    IF ~InFile(p, i.reg) THEN {Outcome(p, Panic)}
    ELSE IF (p.registers[i.reg].t = "Number" /\ GtZero(p.registers[i.reg].v))
            \/ (p.registers[i.reg].t = "Boolean" /\ p.registers[i.reg].b)
        THEN {Outcome(p, Ok)}
    ELSE {Outcome([p EXCEPT !.ip = i.dest], Ok)}

executeJmp(p, i) == {Outcome([p EXCEPT !.ip = i.dest], Ok)}

\* the `cond` of JmpFalse
Truthy(v) ==
    CASE v.t = "Number" -> GtZero(v.v)
      [] v.t = "Boolean" -> v.b
      [] OTHER -> FALSE

\* `dest - 1` on a usize: with dest = 0 a build with overflow checks panics, a
\* build without them wraps to usize::MAX, which is written -1 here (the
\* residue mod 2^64; the run loop's `ip += 1` then wraps it to 0).
executeJmpFalse(p, i) ==
    IF ~InFile(p, i.reg) THEN {Outcome(p, Panic)}
    ELSE IF Truthy(p.registers[i.reg]) THEN {Outcome(p, Ok)}
    ELSE IF i.dest = 0
        THEN {Outcome(p, Panic), Outcome([p EXCEPT !.ip = -1], Ok)}
    ELSE {Outcome([p EXCEPT !.ip = i.dest - 1], Ok)}

\* an insert that keeps the binding a name already has
InsertIfAbsent(variables, name, value) == variables @@ (name :> value)

\* HashMap::insert
Insert(variables, name, value) == (name :> value) @@ variables

executeStore(p, i) ==
    IF ~InFile(p, i.reg) THEN {Outcome(p, Panic)}
    ELSE {Outcome([p EXCEPT !.variables = Insert(@, i.name, p.registers[i.reg])], Ok)}

\* LoadVar that fills the register with a default when the name is unbound
executeLoadVarDefault(p, i) ==
    IF i.name \in DOMAIN p.variables
    THEN WriteRegister(p, i.reg, p.variables[i.name])
    ELSE WriteRegister(p, i.reg, Empty)

executeLoadVar(p, i) ==
    IF i.name \in DOMAIN p.variables
    THEN WriteRegister(p, i.reg, p.variables[i.name])
    ELSE {Outcome(p, UndefinedVariable(p.pid, i.name))}

\* Load that leaves the register as it is
executeLoadNothing(p, i) ==
    IF ~InFile(p, i.reg) THEN {Outcome(p, Panic)} ELSE {Outcome(p, Ok)}

\* Load: self.registers[reg.index] = value
executeLoad(p, i) == WriteRegister(p, i.reg, i.value)

\* the set of outcomes of execute(instruction) on process p
execute(p, i) ==
    CASE i.op = "Halt" -> {Outcome([p EXCEPT !.halt = TRUE], Ok)}
      [] i.op = "Load" -> executeLoad(p, i)
      [] i.op = "Add" -> executeAdd(p, i)
      [] i.op \in {"Sub", "Mul", "Div"} -> executeNumeric(p, i)
      [] i.op = "Jmp" -> executeJmp(p, i)
      [] i.op = "JmpFalse" -> executeJmpFalse(p, i)
      [] i.op = "Store" -> executeStore(p, i)
      [] i.op = "LoadVar" -> executeLoadVar(p, i)
      [] i.op = "DbgPrintReg" ->
            IF InFile(p, i.reg) THEN {Outcome(p, Ok)} ELSE {Outcome(p, Panic)}
      [] i.op = "DbgPrintVar" ->
            IF i.name \in DOMAIN p.variables THEN {Outcome(p, Ok)} ELSE {Outcome(p, Panic)}

\* a loop that ignores Err(e) and goes on
ContinuesAlways(res) == TRUE

\* run_program's match on execute's result: Ok falls through to `self.ip += 1`,
\* Err(e) returns Err(e)
Continues(res) == res = Ok

\* a loop condition that does not look at the halt flag
LoopConditionIgnoringHalt(p) == p.ip < Len(p.program)

\* the condition of run_program's while loop
LoopCondition(p) == p.ip < Len(p.program) /\ ~p.halt

\* self.program[self.ip]
Fetch(p) == p.program[p.ip + 1]

(***************************************************************************)
(* ASTNode.  The else-branch of If is an Option: NoElse stands for None.   *)
(***************************************************************************)
StringLiteral(string) == [node |-> "StringLiteral", string |-> string]
NumberLiteral(value) == [node |-> "NumberLiteral", value |-> value]
BinaryOp(left, op, right) == [node |-> "BinaryOp", left |-> left, op |-> op, right |-> right]
Variable(name) == [node |-> "Variable", name |-> name]
Assignment(name, value) == [node |-> "Assignment", name |-> name, value |-> value]
If(condition, then_branch, else_branch) ==
    [node |-> "If", condition |-> condition, then_branch |-> then_branch,
     else_branch |-> else_branch]
While(condition, body) == [node |-> "While", condition |-> condition, body |-> body]
Block(statements) == [node |-> "Block", statements |-> statements]
NoElse == [node |-> "None"]

(***************************************************************************)
(* BytecodeGenerator                                                       *)
(***************************************************************************)
BytecodeGeneratorNew == [instructions |-> <<>>, next_register |-> 0, variables |-> <<>>]

\* What a call on the generator yields: the generator afterwards and the register returned.
Generated(g, reg) == [g |-> g, reg |-> reg]

\* an allocator that hands out the counter without advancing it
allocate_registerReuse(g) == Generated(g, g.next_register)

allocate_register(g) == Generated([g EXCEPT !.next_register = @ + 1], g.next_register)

\* self.instructions.push(instruction)
Push(g, instruction) == [g EXCEPT !.instructions = Append(@, instruction)]

\* self.instructions[label] = instruction
Patch(g, label, instruction) == [g EXCEPT !.instructions[label + 1] = instruction]

\* the instruction of a binary operator with its operand registers exchanged
BinaryInstructionSwapped(op, result_reg, left_reg, right_reg) ==
    CASE op = "Add" -> Add(result_reg, right_reg, left_reg)
      [] op = "Subtract" -> Sub(result_reg, right_reg, left_reg)
      [] op = "Multiply" -> Mul(result_reg, right_reg, left_reg)
      [] op = "Divide" -> Div(result_reg, right_reg, left_reg)

\* the instruction of a binary operator
BinaryInstruction(op, result_reg, left_reg, right_reg) ==
    CASE op = "Add" -> Add(result_reg, left_reg, right_reg)
      [] op = "Subtract" -> Sub(result_reg, left_reg, right_reg)
      [] op = "Multiply" -> Mul(result_reg, left_reg, right_reg)
      [] op = "Divide" -> Div(result_reg, left_reg, right_reg)

\* the backpatched target of an If's JmpFalse when there is an else-branch
IfElseTarget(else_label) == else_label + 1

\* a target one past the end of the then-branch
IfEndTargetNext(end_label) == end_label + 1

\* the backpatched target of an If's JmpFalse when there is no else-branch
IfEndTarget(end_label) == end_label

\* a While whose JmpFalse keeps the placeholder target
WhileEndUnpatched(loop_end) == 0

\* the backpatched target of a While's JmpFalse
WhileEndTarget(loop_end) == loop_end

\* an exit jump that keeps the placeholder target
IfExitUnpatched(len) == 0

\* the backpatched target of the Jmp that ends an If's then-branch
IfExitTarget(len) == len

\* a back-jump that compensates for a `+ 1` the jump is expected to skip
WhileBackTargetNext(loop_start) == loop_start + 1

\* the target of a While's back-jump
WhileBackTarget(loop_start) == loop_start

RECURSIVE generate(_, _), generateStatements(_, _, _)

\* a Block that returns its own register whatever its statements return
generateStatementsOwn(g, statements, last_reg) ==
    IF statements = <<>> THEN Generated(g, last_reg)
    ELSE LET s == generate(g, Head(statements))
         IN  Generated(generateStatements(s.g, Tail(statements), s.reg).g, last_reg)

\* the `for statement in statements` loop of Block
generateStatements(g, statements, last_reg) ==
    IF statements = <<>> THEN Generated(g, last_reg)
    ELSE LET s == generate(g, Head(statements))
         IN  generateStatements(s.g, Tail(statements), s.reg)

\* TLC evaluates an operator's arguments on demand; the test on g makes it
\* evaluate the generator built so far before it lowers the node.
generate(g, n) ==
    IF g.next_register < 0 THEN Generated(g, 0) ELSE
    CASE n.node = "NumberLiteral" ->
            LET a == allocate_register(g)
            IN  Generated(Push(a.g, Load(a.reg, Number(n.value))), a.reg)
      [] n.node = "StringLiteral" ->
            LET a == allocate_register(g)
            IN  Generated(Push(a.g, Load(a.reg, String(n.string))), a.reg)
      [] n.node = "BinaryOp" ->
            LET l == generate(g, n.left)
                r == generate(l.g, n.right)
                a == allocate_register(r.g)
            IN  Generated(Push(a.g, BinaryInstruction(n.op, a.reg, l.reg, r.reg)), a.reg)
      [] n.node = "Variable" ->
            LET a == allocate_register(g)
            IN  Generated(Push(a.g, LoadVar(a.reg, n.name)), a.reg)
      [] n.node = "Assignment" ->
            LET v == generate(g, n.value)
                g1 == Push(v.g, Store(n.name, v.reg))
            IN  Generated([g1 EXCEPT !.variables = Insert(@, n.name, v.reg)], v.reg)
      [] n.node = "Block" ->
            LET a == allocate_register(g)
            IN  generateStatements(a.g, n.statements, a.reg)
      [] n.node = "If" ->
            LET c == generate(g, n.condition)
                then_label == Len(c.g.instructions)
                t == generate(Push(c.g, JmpFalse(c.reg, 0)), n.then_branch)
                end_label == Len(t.g.instructions)
            IN  IF n.else_branch # NoElse
                THEN LET else_label == Len(t.g.instructions)
                         g1 == Patch(Push(t.g, Jmp(0)), then_label,
                                     JmpFalse(c.reg, IfElseTarget(else_label)))
                         e == generate(g1, n.else_branch)
                     IN  allocate_register(
                             Patch(e.g, else_label,
                                   Jmp(IfExitTarget(Len(e.g.instructions)))))
                ELSE allocate_register(
                         Patch(t.g, then_label, JmpFalse(c.reg, IfEndTarget(end_label))))
      [] n.node = "While" ->
            LET loop_start == Len(g.instructions)
                c == generate(g, n.condition)
                body_start == Len(c.g.instructions)
                b == generate(Push(c.g, JmpFalse(c.reg, 0)), n.body)
                g1 == Push(b.g, Jmp(WhileBackTarget(loop_start)))
                loop_end == Len(g1.instructions)
            IN  allocate_register(
                    Patch(g1, body_start, JmpFalse(c.reg, WhileEndTarget(loop_end))))

(***************************************************************************)
(* Inputs: the syntax trees handed to generate and the hand-written        *)
(* programs handed to load_program.                                        *)
(***************************************************************************)
Num(i) == NumberLiteral(F(i))

\* x := 0; while (5 - x) { x := x + 1 }
WhileCountAst ==
    Block(<<Assignment("x", Num(0)),
            While(BinaryOp(Num(5), "Subtract", Variable("x")),
                  Block(<<Assignment("x", BinaryOp(Variable("x"), "Add", Num(1)))>>))>>)

\* if (x - 5) { result := 1 } else { result := 0 }
IfScenarioAst ==
    If(BinaryOp(Variable("x"), "Subtract", Num(5)),
       Assignment("result", Num(1)),
       Assignment("result", Num(0)))

\* hello := "hi "; world := 3; s := hello + world
ConcatAst ==
    Block(<<Assignment("hello", StringLiteral("hi ")),
            Assignment("world", Num(3)),
            Assignment("s", BinaryOp(Variable("hello"), "Add", Variable("world")))>>)

BinaryOperators == {"Add", "Subtract", "Multiply", "Divide"}

Atoms == {Num(0), Num(2), StringLiteral("a")}

\* x := <atom> <op> <atom>
ExprAsts == {Assignment("x", BinaryOp(l, op, r)) : l \in Atoms, r \in Atoms, op \in BinaryOperators}

Conditions == {Num(0), Num(1), Variable("x")}

Leaves == {Assignment("y", Num(1)), Block(<<>>)}

\* conditionals over leaves, with and without else-branch
Ifs1 == {If(c, t, e) : c \in Conditions, t \in Leaves, e \in Leaves \cup {NoElse}}

\* the conditionals nested in others
Inner == {i \in Ifs1 : i.condition # Variable("x") /\ i.then_branch # Block(<<>>)}

\* conditionals whose then-branch or else-branch is a conditional
Ifs2 ==
    {If(c, t, e) : c \in {Num(0), Num(1)}, t \in Inner, e \in {Assignment("z", Num(2)), NoElse}}
    \cup {If(c, Assignment("z", Num(2)), e) : c \in {Num(0), Num(1)}, e \in Inner}

\* a conditional followed by another statement
SeqAsts == {Block(<<i, Assignment("w", Num(3))>>) : i \in Ifs1 \cup Ifs2}

\* x := 0; while (2 - x) { x := x + 1; <statement> }; w := x
LoopAsts ==
    {Block(<<Assignment("x", Num(0)),
             While(BinaryOp(Num(2), "Subtract", Variable("x")),
                   Block(<<Assignment("x", BinaryOp(Variable("x"), "Add", Num(1))), s>>)),
             Assignment("w", Variable("x"))>>) : s \in {Block(<<>>)} \cup Inner}
    \cup {While(c, b) : c \in {Num(0), Num(1), Block(<<>>)}, b \in Leaves}

\* x := 1; while (x) { x := 0 }
StaleLoopAst ==
    Block(<<Assignment("x", Num(1)), While(Variable("x"), Assignment("x", Num(0)))>>)

\* x := (2 - 0) <op> (2 * <atom>)
NestedExprAsts ==
    {Assignment("x", BinaryOp(BinaryOp(Num(2), "Subtract", Num(0)), op,
                              BinaryOp(Num(2), "Multiply", r))) :
        op \in BinaryOperators, r \in Atoms}

Asts ==
    {WhileCountAst, IfScenarioAst, ConcatAst, Block(<<Assignment("x", Num(5)), IfScenarioAst>>)}
    \cup ExprAsts \cup Ifs1 \cup SeqAsts \cup LoopAsts \cup NestedExprAsts \cup Atoms
    \cup {StaleLoopAst}

\* register contents the hand-written programs set up
OperandValues == {Empty, Number(F(0)), Number(F(2)), Boolean(TRUE), String("a")}
ConditionValues == OperandValues \cup {Number(F(-1)), Boolean(FALSE)}

Numeric(op, dest, reg1, reg2) ==
    CASE op = "Add" -> Add(dest, reg1, reg2)
      [] op = "Sub" -> Sub(dest, reg1, reg2)
      [] op = "Mul" -> Mul(dest, reg1, reg2)
      [] op = "Div" -> Div(dest, reg1, reg2)

\* r2 := "d"; r0 := a; r1 := b; r2 := r0 <op> r1; x := r2
ArithPrograms ==
    {<<Load(2, String("d")), Load(0, a), Load(1, b), Numeric(op, 2, 0, 1), Store("x", 2)>> :
        a \in OperandValues, b \in OperandValues, op \in {"Add", "Sub", "Mul", "Div"}}

\* r0 := c; jump-if-false r0, t; x := r0; y := r0
JmpFalsePrograms ==
    {<<Load(0, c), JmpFalse(0, t), Store("x", 0), Store("y", 0)>> :
        c \in ConditionValues, t \in 0 .. 4}

\* r0 := 1; jump t; x := r0; y := r0
JmpPrograms ==
    {<<Load(0, Number(F(1))), Jmp(t), Store("x", 0), Store("y", 0)>> : t \in 0 .. 4}

Names == {"x", "y"}

OtherPrograms ==
    {<<Load(1, Number(F(1))), LoadVar(1, n), Store(m, 1)>> : n \in Names, m \in Names}
    \cup {<<Load(0, Number(F(1))), Halt, Store("x", 0)>>,
          <<DbgPrintReg(0), DbgPrintVar("x"), Store("y", 0)>>,
          <<>>}

HandPrograms == ArithPrograms \cup JmpFalsePrograms \cup JmpPrograms \cup OtherPrograms

(***************************************************************************)
(* The state.  processes is the VM's collection (process k is               *)
(* processes[k + 1]) and loaded[k + 1] the syntax tree process k's program *)
(* was generated from; gen is the generator as generate left it and ast    *)
(* the tree it compiled, with the register generate returned.  pc is       *)
(* "loaded" after load_program, "running" inside run_program's loop and    *)
(* "aborted" after a panic, "ready" otherwise.  cur is                     *)
(* the process of the current or last call of run_program, result what     *)
(* that call returned, trace the indices it fetched and conds, for each,   *)
(* the truth of the register a fetched jump-if-false tested.               *)
(***************************************************************************)
NotCompiled == [root |-> NoElse, reg |-> 0]
Compiled(root, reg) == [root |-> root, reg |-> reg]
NoResult == [e |-> "none"]

Init ==
    /\ processes = <<>>
    /\ gen = BytecodeGeneratorNew
    /\ ast = NotCompiled
    /\ loaded = <<>>
    /\ pc = "ready"
    /\ cur = 0
    /\ result = NoResult
    /\ trace = <<>>
    /\ conds = <<>>
    /\ runs = 0

\* ByteCodeVM::spawn
Spawn(limit) ==
    /\ pc = "ready"
    /\ Len(processes) < limit
    /\ processes' = Append(processes, ProcessNew(Len(processes)))
    /\ loaded' = Append(loaded, NotCompiled)
    /\ UNCHANGED <<gen, ast, pc, cur, result, trace, conds, runs>>

\* main: BytecodeGenerator::new(), generator.generate(&ast), then
\* process.load_program(generator.instructions, generator.next_register)
Compile(k, a) ==
    /\ pc = "ready"
    /\ runs < MaxRuns
    /\ k \in 1 .. Len(processes)
    /\ LET r == generate(BytecodeGeneratorNew, a)
       IN  /\ gen' = r.g
           /\ ast' = Compiled(a, r.reg)
           /\ loaded' = [loaded EXCEPT ![k] = Compiled(a, r.reg)]
           /\ processes' = [processes EXCEPT
                              ![k] = load_program(@, r.g.instructions, r.g.next_register)]
    /\ cur' = k
    /\ result' = NoResult
    /\ trace' = <<>>
    /\ conds' = <<>>
    /\ pc' = "loaded"
    /\ UNCHANGED runs

\* process.load_program(program, max_registers) with a hand-written program
LoadHand(k, program) ==
    /\ pc = "ready"
    /\ runs < MaxRuns
    /\ k \in 1 .. Len(processes)
    /\ processes' = [processes EXCEPT ![k] = load_program(@, program, HandRegisters)]
    /\ loaded' = [loaded EXCEPT ![k] = NotCompiled]
    /\ gen' = BytecodeGeneratorNew
    /\ ast' = NotCompiled
    /\ cur' = k
    /\ result' = NoResult
    /\ trace' = <<>>
    /\ conds' = <<>>
    /\ pc' = "loaded"
    /\ UNCHANGED runs

\* run_program is called: self.ip = 0
RunBegin(k) ==
    /\ pc \in {"ready", "loaded"}
    /\ runs < MaxRuns
    /\ k \in 1 .. Len(processes)
    /\ processes' = [processes EXCEPT ![k].ip = 0]
    /\ pc' = "running"
    /\ cur' = k
    /\ result' = NoResult
    /\ trace' = <<>>
    /\ conds' = <<>>
    /\ runs' = runs + 1
    /\ UNCHANGED <<gen, ast, loaded>>

\* one iteration of run_program's loop: fetch, execute, then `return Err(e)` or `self.ip += 1`
Step ==
    /\ pc = "running"
    /\ LoopCondition(processes[cur])
    /\ Len(trace) < MaxSteps
    /\ LET p == processes[cur]
           instruction == Fetch(p)
       IN  /\ trace' = Append(trace, p.ip)
           /\ conds' = Append(conds, IF instruction.op = "JmpFalse" /\ InFile(p, instruction.reg)
                                     THEN Truthy(p.registers[instruction.reg])
                                     ELSE TRUE)
           /\ \E o \in execute(p, instruction) :
                IF Continues(o.res)
                THEN /\ processes' = [processes EXCEPT ![cur] = [o.p EXCEPT !.ip = @ + 1]]
                     /\ UNCHANGED <<pc, result>>
                ELSE /\ processes' = [processes EXCEPT ![cur] = o.p]
                     /\ pc' = IF o.res = Panic THEN "aborted" ELSE "ready"
                     /\ result' = o.res
    /\ UNCHANGED <<gen, ast, loaded, cur, runs>>

\* the loop condition fails: run_program returns Ok(())
Return ==
    /\ pc = "running"
    /\ ~LoopCondition(processes[cur])
    /\ pc' = "ready"
    /\ result' = Ok
    /\ UNCHANGED <<processes, gen, ast, loaded, cur, trace, conds, runs>>

\* main: one VM, one process, programs generated or written by hand
Next ==
    \/ Spawn(1)
    \/ \E k \in 1 .. Len(processes), a \in Asts : Compile(k, a)
    \/ \E k \in 1 .. Len(processes), program \in HandPrograms : LoadHand(k, program)
    \/ \E k \in 1 .. Len(processes) : RunBegin(k)
    \/ Step
    \/ Return

Spec == Init /\ [][Next]_vars

\* run_program is a synchronous loop: once called it keeps fetching until it returns
FairSpec == Spec /\ WF_vars(Step) /\ WF_vars(Return)

(***************************************************************************)
(* The host-level specification: one VM with several processes, each       *)
(* loaded and run several times.  Every call of run_program follows a call *)
(* of load_program on the same process.                                    *)
(***************************************************************************)
\* x := 1 | y := x | r0 := 2; halt; x := r0 | r1 := "a" - "a"; y := r1
VMPrograms ==
    {<<Load(0, Number(F(1))), Store("x", 0)>>,
     <<LoadVar(1, "x"), Store("y", 1)>>,
     <<Load(0, Number(F(2))), Halt, Store("x", 0)>>,
     <<Load(0, String("a")), Sub(1, 0, 0), Store("y", 1)>>}

\* process.load_program(program, max_registers), on a new process or after a run has ended
VMLoad(k, program) ==
    /\ pc = "ready"
    /\ runs < MaxVMRuns
    /\ k \in 1 .. Len(processes)
    /\ processes' = [processes EXCEPT ![k] = load_program(@, program, HandRegisters)]
    /\ loaded' = [loaded EXCEPT ![k] = NotCompiled]
    /\ gen' = BytecodeGeneratorNew
    /\ ast' = NotCompiled
    /\ cur' = k
    /\ result' = NoResult
    /\ trace' = <<>>
    /\ conds' = <<>>
    /\ pc' = "loaded"
    /\ UNCHANGED runs

\* a run_program that resets the instruction pointer of every process of the VM
VMRunAll(k) ==
    /\ pc = "loaded"
    /\ k = cur
    /\ processes' = [q \in DOMAIN processes |-> [processes[q] EXCEPT !.ip = 0]]
    /\ pc' = "running"
    /\ runs' = runs + 1
    /\ UNCHANGED <<gen, ast, loaded, cur, result, trace, conds>>

\* process.run_program() on the process just loaded: self.ip = 0
VMRun(k) ==
    /\ pc = "loaded"
    /\ k = cur
    /\ processes' = [processes EXCEPT ![k].ip = 0]
    /\ pc' = "running"
    /\ runs' = runs + 1
    /\ UNCHANGED <<gen, ast, loaded, cur, result, trace, conds>>

VMNext ==
    \/ Spawn(MaxProcs)
    \/ \E k \in 1 .. Len(processes), program \in VMPrograms : VMLoad(k, program)
    \/ \E k \in 1 .. Len(processes) : VMRun(k)
    \/ Step
    \/ Return

SpecVM == Init /\ [][VMNext]_vars

(***************************************************************************)
(* Vocabulary of the properties.                                           *)
(***************************************************************************)
\* the process of the current or last call of run_program, now and after the step
Proc == processes[cur]
ProcNext == processes'[cur]

\* the instruction the loop fetches next
Instr == Fetch(Proc)

\* this step is an iteration of run_program's loop
Stepping == pc = "running" /\ Len(trace') = Len(trace) + 1

\* this step executes an instruction of the given kind
Executes(op) == Stepping /\ Instr.op = op

\* the index fetched last and the instruction there
LastIndex == trace[Len(trace)]
LastInstr == Proc.program[LastIndex + 1]

\* the call of run_program has returned Ok
ReturnedOk == pc = "ready" /\ result = Ok

(***************************************************************************)
(* The layout of the code generate emits for a node, computed from the     *)
(* tree alone: CodeLen is the number of instructions, Sites the            *)
(* conditionals and loops with the indices of their parts when the node's  *)
(* code starts at index base.  For a site, first is the index of the first *)
(* instruction of the condition, jf that of the jump-if-false, jmp that    *)
(* of the unconditional jump (the end of the then-branch of a conditional  *)
(* with else-branch, the back-jump of a loop; for a conditional without    *)
(* else-branch there is none and jmp = last), last the index after the     *)
(* last instruction of the construct.                                      *)
(***************************************************************************)
RECURSIVE CodeLen(_), BlockLen(_)
CodeLen(n) ==
    CASE n.node \in {"NumberLiteral", "StringLiteral", "Variable"} -> 1
      [] n.node = "BinaryOp" -> CodeLen(n.left) + CodeLen(n.right) + 1
      [] n.node = "Assignment" -> CodeLen(n.value) + 1
      [] n.node = "Block" -> BlockLen(n.statements)
      [] n.node = "If" ->
            CodeLen(n.condition) + 1 + CodeLen(n.then_branch)
            + (IF n.else_branch # NoElse THEN 1 + CodeLen(n.else_branch) ELSE 0)
      [] n.node = "While" -> CodeLen(n.condition) + 1 + CodeLen(n.body) + 1

BlockLen(statements) ==
    IF statements = <<>> THEN 0
    ELSE CodeLen(Head(statements)) + BlockLen(Tail(statements))

Site(kind, first, jf, jmp, last) ==
    [kind |-> kind, first |-> first, jf |-> jf, jmp |-> jmp, last |-> last]

RECURSIVE Sites(_, _), BlockSites(_, _)
Sites(n, base) ==
    CASE n.node \in {"NumberLiteral", "StringLiteral", "Variable"} -> {}
      [] n.node = "BinaryOp" ->
            Sites(n.left, base) \cup Sites(n.right, base + CodeLen(n.left))
      [] n.node = "Assignment" -> Sites(n.value, base)
      [] n.node = "Block" -> BlockSites(n.statements, base)
      [] n.node = "If" ->
            LET jf == base + CodeLen(n.condition)
                jmp == jf + 1 + CodeLen(n.then_branch)
            IN  Sites(n.condition, base) \cup Sites(n.then_branch, jf + 1)
                \cup (IF n.else_branch # NoElse
                      THEN {Site("IfElse", base, jf, jmp, jmp + 1 + CodeLen(n.else_branch))}
                           \cup Sites(n.else_branch, jmp + 1)
                      ELSE {Site("If", base, jf, jmp, jmp)})
      [] n.node = "While" ->
            LET jf == base + CodeLen(n.condition)
                jmp == jf + 1 + CodeLen(n.body)
            IN  Sites(n.condition, base) \cup Sites(n.body, jf + 1)
                \cup {Site("While", base, jf, jmp, jmp + 1)}

BlockSites(statements, base) ==
    IF statements = <<>> THEN {}
    ELSE Sites(Head(statements), base)
         \cup BlockSites(Tail(statements), base + CodeLen(Head(statements)))

\* the indices of the then-branch and of the else-branch of a conditional
ThenRange(s) == s.jf + 1 .. s.jmp - 1
ElseRange(s) == s.jmp + 1 .. s.last - 1

(***************************************************************************)
(* Properties                                                              *)
(***************************************************************************)

\* C3: executing div(dest, a, b) with a Number in register a and Number 0 in
\* register b makes run return DivisionByZero with the process's id and leaves
\* register dest as it was.
C3_DivByZeroRaises ==
    [][(/\ Executes("Div")
        /\ InFile(Proc, Instr.reg1) /\ InFile(Proc, Instr.reg2) /\ InFile(Proc, Instr.dest)
        /\ IsNumber(Proc.registers[Instr.reg1])
        /\ IsNumber(Proc.registers[Instr.reg2])
        /\ IsZero(Proc.registers[Instr.reg2].v))
       => (/\ pc' = "ready"
           /\ result' = DivisionByZero(Proc.pid)
           /\ ProcNext.registers[Instr.dest] = Proc.registers[Instr.dest])]_vars

\* C7: after the run loop executes jump(target), the next instruction fetched
\* is the one at index target.
C7_JmpLandsOnTarget ==
    [][Executes("Jmp") => ProcNext.ip = Instr.dest]_vars

\* the float is <= 0.0 (which NaN is not)
LeZero(a) == \/ a.c = "inf" /\ a.s = -1
             \/ a.c = "fin" /\ (a.s = -1 \/ a.n = 0)

\* what C8 calls falsy and truthy register contents
SaidFalsy(v) ==
    \/ v.t = "Number" /\ LeZero(v.v)
    \/ v.t = "Boolean" /\ ~v.b
    \/ v.t \in {"String", "Empty"}
SaidTruthy(v) ==
    \/ v.t = "Number" /\ GtZero(v.v)
    \/ v.t = "Boolean" /\ v.b

\* C8: jump-if-false(reg, target) at index i with target >= 1 continues at
\* index target when reg holds a Number <= 0, Boolean false, a Text or Empty,
\* and at index i + 1 when reg holds a Number > 0 or Boolean true; it changes
\* no register and no variable.
C8_JmpFalseLanding ==
    [][(Executes("JmpFalse") /\ Instr.dest >= 1 /\ InFile(Proc, Instr.reg))
       => (/\ pc' = "running"
           /\ SaidFalsy(Proc.registers[Instr.reg]) => ProcNext.ip = Instr.dest
           /\ SaidTruthy(Proc.registers[Instr.reg]) => ProcNext.ip = Proc.ip + 1
           /\ ProcNext.registers = Proc.registers
           /\ ProcNext.variables = Proc.variables)]_vars

\* a jump-if-false on a falsy register has just jumped forward over an instruction
C8_Witness ==
    /\ pc = "running"
    /\ trace # <<>>
    /\ LastInstr.op = "JmpFalse"
    /\ ~conds[Len(conds)]
    /\ LastInstr.dest > LastIndex + 1
    /\ Proc.ip = LastInstr.dest

\* C4: load-variable(reg, name) for a name no store has bound on this process
\* (the store only ever gains names, so: a name not in it) makes run return
\* UndefinedVariable with the process's id and the name, and writes no register.
C4_UndefinedVariable ==
    [][(Executes("LoadVar") /\ Instr.name \notin DOMAIN Proc.variables)
       => (/\ pc' = "ready"
           /\ result' = UndefinedVariable(Proc.pid, Instr.name)
           /\ ProcNext.registers = Proc.registers)]_vars

\* run has returned UndefinedVariable and the register named by the failed
\* load-variable still holds the value loaded into it before
C4_Witness ==
    /\ pc = "ready"
    /\ result = UndefinedVariable(0, "x")
    /\ Instr = LoadVar(1, "x")
    /\ Proc.registers[1] = Number(F(1))

\* the operand pairs for which C5 says the instruction is a type mismatch
SaidMismatch(op, value1, value2) ==
    \/ op \in {"Sub", "Mul", "Div"} /\ (~IsNumber(value1) \/ ~IsNumber(value2))
    \/ op = "Add" /\ {value1.t, value2.t} \cap {"Empty", "Boolean"} # {}

\* C5: sub, mul and div with an operand that is not a Number, and add with an
\* operand that is Empty or Boolean, make run return TypeMismatch with the
\* process's id and change no register and no variable.
C5_TypeMismatch ==
    [][(/\ Stepping
        /\ Instr.op \in {"Add", "Sub", "Mul", "Div"}
        /\ InFile(Proc, Instr.reg1) /\ InFile(Proc, Instr.reg2)
        /\ SaidMismatch(Instr.op, Proc.registers[Instr.reg1], Proc.registers[Instr.reg2]))
       => (/\ pc' = "ready"
           /\ result' = TypeMisMatch(Proc.pid)
           /\ ProcNext.registers = Proc.registers
           /\ ProcNext.variables = Proc.variables)]_vars

\* run has returned TypeMismatch from a div whose second operand is a Boolean
C5_Witness ==
    /\ pc = "ready"
    /\ result = TypeMisMatch(0)
    /\ Instr.op = "Div"
    /\ Proc.registers[Instr.reg1] = Number(F(2))
    /\ Proc.registers[Instr.reg2] = Boolean(TRUE)

\* C6: when the instruction at index i signals an error, run returns that
\* error at once, with the pointer still at i and the registers and variables
\* as the instructions before i left them; once run has returned, no further
\* instruction of that run is fetched.
C6_ErrorAborts ==
    [][/\ Stepping =>
            \A o \in execute(Proc, Instr) :
                o.res \notin {Ok, Panic} =>
                    /\ pc' = "ready"
                    /\ result' = o.res
                    /\ trace' = Append(trace, Proc.ip)
                    /\ ProcNext = Proc
       /\ pc # "running" => (trace' = trace \/ trace' = <<>>)]_vars

\* run has returned an error from the fourth instruction, and what the first
\* three wrote is in the registers
C6_Witness ==
    /\ pc = "ready"
    /\ result = TypeMisMatch(0)
    /\ Len(trace) = 4
    /\ Proc.ip = 3
    /\ Proc.registers[2] = String("d")
    /\ Proc.registers[0] = Number(F(2))

\* the rational value of the finite float r is that of a plus that of b
IsSum(r, a, b) ==
    /\ r.c = "fin"
    /\ r.s * r.n * a.d * b.d = (a.s * a.n * b.d + b.s * b.n * a.d) * r.d

\* C9: add(dest, a, b) stores the numeric sum for two Numbers, a followed by b
\* for two Texts and, for a Text and a Number in either order, the text
\* followed by the formatted number; compiled on a process that has not halted,
\* hello := "hi "; world := 3; s := hello + world ends with s == "hi 3".
C9_Add ==
    [][/\ (Executes("Add") /\ InFile(Proc, Instr.reg1) /\ InFile(Proc, Instr.reg2)
           /\ InFile(Proc, Instr.dest))
          => LET value1 == Proc.registers[Instr.reg1]
                 value2 == Proc.registers[Instr.reg2]
                 stored == ProcNext.registers[Instr.dest]
             IN  /\ (IsNumber(value1) /\ IsNumber(value2)
                     /\ value1.v.c = "fin" /\ value2.v.c = "fin")
                       => IsNumber(stored) /\ IsSum(stored.v, value1.v, value2.v)
                 /\ (IsString(value1) /\ IsString(value2))
                       => stored = String(value1.s \o value2.s)
                 /\ (IsString(value1) /\ IsNumber(value2))
                       => stored = String(value1.s \o to_string(value2.v))
                 /\ (IsNumber(value1) /\ IsString(value2))
                       => stored = String(value2.s \o to_string(value1.v))
       /\ (pc' = "ready" /\ result' = Ok /\ loaded'[cur'].root = ConcatAst /\ ~ProcNext.halt)
          => (/\ "s" \in DOMAIN ProcNext.variables
              /\ ProcNext.variables["s"] = String("hi 3"))]_vars

\* the concatenation scenario has run and bound s to "hi 3"
C9_Witness ==
    /\ ReturnedOk
    /\ loaded[cur].root = ConcatAst
    /\ Proc.variables["s"] = String("hi 3")

\* the instruction at index i of the generated code
Code(i) == gen.instructions[i + 1]

\* the conditionals and loops of the tree the generator compiled
GenSites == Sites(ast.root, 0)

\* C10: after generate returns, every jump-if-false at index i has a target t
\* with i < t <= length, every unconditional jump that ends the then-branch of
\* a conditional has a target t with i < t <= length, every back-jump of a
\* loop targets the index where the loop's condition starts, and there is no
\* other unconditional jump.
C10_JumpsResolved ==
    ast # NotCompiled =>
        LET len == Len(gen.instructions)
        IN  /\ len = CodeLen(ast.root)
            /\ \A i \in 0 .. len - 1 :
                 /\ Code(i).op = "JmpFalse" => i < Code(i).dest /\ Code(i).dest <= len
                 /\ Code(i).op = "Jmp" =>
                        \E s \in GenSites : s.kind \in {"IfElse", "While"} /\ s.jmp = i
            /\ \A s \in GenSites :
                 /\ Code(s.jf).op = "JmpFalse"
                 /\ s.kind = "IfElse" =>
                        /\ Code(s.jmp).op = "Jmp"
                        /\ s.jmp < Code(s.jmp).dest
                        /\ Code(s.jmp).dest <= len
                 /\ s.kind = "While" => Code(s.jmp) = Jmp(s.first)

\* the generator has compiled a loop whose body holds a conditional with else-branch
C10_Witness ==
    /\ ast # NotCompiled
    /\ \E w \in GenSites, i \in GenSites :
         /\ w.kind = "While" /\ i.kind = "IfElse"
         /\ w.jf < i.first /\ i.last <= w.jmp
         /\ w.first < w.jf

\* the positions of the trace that belong to the pass through conditional s
\* begun by the jump-if-false fetched at position k: those that follow k while
\* the fetched indices stay inside the conditional
Pass(s, k) ==
    {j \in k + 1 .. Len(trace) :
        \A m \in k + 1 .. j : trace[m] > s.jf /\ trace[m] < s.last}

RanThen(s, k) == \E j \in Pass(s, k) : trace[j] \in ThenRange(s)
RanElse(s, k) == \E j \in Pass(s, k) : trace[j] \in ElseRange(s)

\* x := 5; if (x - 5) { result := 1 } else { result := 0 }
BoundIfScenarioAst == Block(<<Assignment("x", Num(5)), IfScenarioAst>>)

\* C2: one execution of a conditional with else-branch, at any nesting depth,
\* runs instructions of one branch only: of the then-branch when the tested
\* register is truthy, of the else-branch when it is falsy; and with x bound
\* to 5, if (x - 5) { result := 1 } else { result := 0 } ends with result == 0.
C2_OneBranch ==
    (cur # 0 /\ loaded[cur] # NotCompiled) =>
        /\ \A s \in Sites(loaded[cur].root, 0), k \in 1 .. Len(trace) :
             (s.kind = "IfElse" /\ trace[k] = s.jf) =>
                 /\ conds[k] => ~RanElse(s, k)
                 /\ ~conds[k] => ~RanThen(s, k)
                 /\ (conds[k] /\ k < Len(trace)) => trace[k + 1] = s.jf + 1
                 /\ (~conds[k] /\ k < Len(trace)) => trace[k + 1] = s.jmp + 1
        /\ (ReturnedOk /\ loaded[cur].root = BoundIfScenarioAst /\ ~Proc.halt)
             => (/\ "result" \in DOMAIN Proc.variables
                 /\ Proc.variables["result"] = Number(F(0)))

\* a run of the counting loop is under way on a freshly spawned process
C1_Started ==
    /\ pc = "running"
    /\ loaded[cur].root = WhileCountAst
    /\ trace = <<>>
    /\ Proc.variables = <<>>
    /\ ~Proc.halt

\* it has returned Ok with x bound to 5
C1_Witness ==
    /\ ReturnedOk
    /\ loaded[cur].root = WhileCountAst
    /\ "x" \in DOMAIN Proc.variables
    /\ Proc.variables["x"] = Number(F(5))

\* C1: x := 0; while (5 - x) { x := x + 1 }, compiled, loaded into a freshly
\* spawned process with next_register registers and run, terminates without
\* error with x bound to Number 5.
C1_WhileCountsToFive == C1_Started ~> C1_Witness

\* the nodes that lower to straight-line code ending in the instruction that
\* computes the node's value
IsExpr(n) == n.node \in {"NumberLiteral", "StringLiteral", "Variable", "BinaryOp"}

\* the expression nodes of a tree, each with the index of its first instruction
\* when the tree's code starts at index base
RECURSIVE Exprs(_, _), BlockExprs(_, _)
Exprs(n, base) ==
    CASE n.node \in {"NumberLiteral", "StringLiteral", "Variable"} ->
            {[node |-> n, first |-> base]}
      [] n.node = "BinaryOp" ->
            {[node |-> n, first |-> base]}
            \cup Exprs(n.left, base) \cup Exprs(n.right, base + CodeLen(n.left))
      [] n.node = "Assignment" -> Exprs(n.value, base)
      [] n.node = "Block" -> BlockExprs(n.statements, base)
      [] n.node = "If" ->
            LET jf == base + CodeLen(n.condition)
                jmp == jf + 1 + CodeLen(n.then_branch)
            IN  Exprs(n.condition, base) \cup Exprs(n.then_branch, jf + 1)
                \cup (IF n.else_branch # NoElse THEN Exprs(n.else_branch, jmp + 1) ELSE {})
      [] n.node = "While" ->
            LET jf == base + CodeLen(n.condition)
            IN  Exprs(n.condition, base) \cup Exprs(n.body, jf + 1)

BlockExprs(statements, base) ==
    IF statements = <<>> THEN {}
    ELSE Exprs(Head(statements), base)
         \cup BlockExprs(Tail(statements), base + CodeLen(Head(statements)))

\* the expression nodes of the tree the generator compiled
GenExprs == Exprs(ast.root, 0)

\* the register an instruction writes
Dest(i) == IF i.op \in {"Load", "LoadVar"} THEN i.reg ELSE i.dest

\* instruction i is the one that computes the value of expression node n
Computes(i, n) ==
    CASE n.node = "NumberLiteral" -> i.op = "Load" /\ i.value = Number(n.value)
      [] n.node = "StringLiteral" -> i.op = "Load" /\ i.value = String(n.string)
      [] n.node = "Variable" -> i.op = "LoadVar" /\ i.name = n.name
      [] n.node = "BinaryOp" ->
            \/ n.op = "Add" /\ i.op = "Add"
            \/ n.op = "Subtract" /\ i.op = "Sub"
            \/ n.op = "Multiply" /\ i.op = "Mul"
            \/ n.op = "Divide" /\ i.op = "Div"

\* C11: for every binary-operation node of the compiled tree, the code of the
\* left subtree comes first and ends with the instruction computing the left
\* value, the code of the right subtree follows and ends with the instruction
\* computing the right value, the arithmetic instruction comes after both,
\* its operands are (left result, right result) in that order, and
\* left register < right register < destination register.
C11_BinaryOpOrder ==
    ast # NotCompiled =>
        \A e \in GenExprs :
            (e.node.node = "BinaryOp" /\ IsExpr(e.node.left) /\ IsExpr(e.node.right)) =>
                LET mid == e.first + CodeLen(e.node.left)
                    at == mid + CodeLen(e.node.right)
                    i == Code(at)
                IN  /\ at < Len(gen.instructions)
                    /\ Computes(Code(mid - 1), e.node.left)
                    /\ Computes(Code(at - 1), e.node.right)
                    /\ Computes(i, e.node)
                    /\ i.reg1 = Dest(Code(mid - 1))
                    /\ i.reg2 = Dest(Code(at - 1))
                    /\ i.reg1 < i.reg2 /\ i.reg2 < i.dest
                    /\ \A j \in e.first .. mid - 1 : Dest(Code(j)) <= i.reg1
                    /\ \A j \in mid .. at - 1 :
                         i.reg1 < Dest(Code(j)) /\ Dest(Code(j)) <= i.reg2

\* the generator has compiled a binary operation whose operands are binary operations
C11_Witness ==
    /\ ast # NotCompiled
    /\ \E e \in GenExprs :
         /\ e.node.node = "BinaryOp"
         /\ e.node.left.node = "BinaryOp"
         /\ e.node.right.node = "BinaryOp"
         /\ Code(e.first + CodeLen(e.node) - 1).op = "Add"

\* the value a literal node denotes
LiteralValue(n) ==
    IF n.node = "NumberLiteral" THEN Number(n.value) ELSE String(n.string)

IsLiteral(n) == n.node \in {"NumberLiteral", "StringLiteral"}

\* in the generated code, every literal node is one load-immediate of the
\* literal's value into a register no other instruction writes and no earlier
\* instruction names; a tree that is a literal yields that one instruction
\* and the register returned is the one loaded
C12_OneLoad ==
    ast # NotCompiled =>
        /\ Len(gen.instructions) = CodeLen(ast.root)
        /\ \A e \in GenExprs :
             IsLiteral(e.node) =>
                 /\ Code(e.first) = Load(Code(e.first).reg, LiteralValue(e.node))
                 /\ Code(e.first).reg < gen.next_register
                 /\ \A j \in 0 .. e.first - 1 :
                      LET i == Code(j)
                      IN  /\ i.op \in {"Load", "LoadVar", "Add", "Sub", "Mul", "Div"}
                               => Dest(i) < Code(e.first).reg
                          /\ i.op \in {"Store", "JmpFalse"}
                               => i.reg < Code(e.first).reg
        /\ IsLiteral(ast.root) =>
             /\ gen.instructions = <<Load(ast.reg, LiteralValue(ast.root))>>
             /\ gen.next_register = ast.reg + 1

\* executing the load of a literal node leaves the literal's value in the register
C12_LoadExecutes ==
    (Executes("Load") /\ loaded[cur] # NotCompiled) =>
        \A e \in Exprs(loaded[cur].root, 0) :
            (IsLiteral(e.node) /\ e.first = Proc.ip) =>
                /\ ProcNext.registers[Instr.reg] = LiteralValue(e.node)
                /\ ProcNext.ip = Proc.ip + 1
                /\ pc' = "running"

\* C12: for every number or string literal node, generate appends exactly one
\* instruction, a load-immediate of the literal's value into a freshly
\* allocated register, and returns that register; after the instruction
\* executes, the register holds a value equal to the literal.
C12_Literals == []C12_OneLoad /\ [][C12_LoadExecutes]_vars

\* a run has executed the load of a string literal that follows other code,
\* and the register holds the string
C12_Witness ==
    /\ cur # 0 /\ loaded[cur] # NotCompiled /\ trace # <<>>
    /\ \E e \in Exprs(loaded[cur].root, 0) :
         /\ e.node.node = "StringLiteral"
         /\ e.first = LastIndex
         /\ e.first > 0
         /\ Proc.registers[LastInstr.reg] = String(e.node.string)

\* C13: after a process's run has ended in Halted (by a halt instruction or by
\* running past the program end) or in Failed (by an instruction error),
\* load_program with a new non-empty program followed by run executes the new
\* program starting with its instruction at index 0: when the VM's only
\* process enters its second or later run, the loop fetches index 0.
C13_ReloadRuns ==
    (/\ pc = "running" /\ trace = <<>>
     /\ Len(processes) = 1 /\ runs >= 2
     /\ Proc.program # <<>>)
        => (LoopCondition(Proc) /\ Proc.ip = 0)

\* this step is a call of load_program, on process cur'
Loads == pc = "ready" /\ pc' = "loaded"

\* C14: load_program(program, n) replaces the program and replaces the
\* register file by n registers all holding Empty, and changes nothing else
\* of the process, the variable store included; the start of a run changes no
\* variable either, and load-variable of a bound name reads the binding: so
\* every binding stored by earlier runs on the process is readable by
\* load-variable in the newly loaded program.
C14_LoadKeepsVariables ==
    [][/\ Loads =>
            /\ processes'[cur'].program \in VMPrograms
            /\ DOMAIN processes'[cur'].registers = 0 .. HandRegisters - 1
            /\ \A r \in 0 .. HandRegisters - 1 : processes'[cur'].registers[r] = Empty
            /\ processes'[cur'].variables = processes[cur'].variables
            /\ processes'[cur'].pid = processes[cur'].pid
            /\ processes'[cur'].ip = processes[cur'].ip
            /\ processes'[cur'].halt = processes[cur'].halt
       /\ (pc = "loaded" /\ pc' = "running") =>
            processes'[cur'].variables = processes[cur'].variables
       /\ (Executes("LoadVar") /\ Instr.name \in DOMAIN Proc.variables /\ InFile(Proc, Instr.reg)) =>
            /\ ProcNext.registers[Instr.reg] = Proc.variables[Instr.name]
            /\ ProcNext.variables = Proc.variables
            /\ pc' = "running"
      ]_vars

\* a process ran x := 1, was then loaded with y := x and ran it: y is 1
C14_Witness ==
    /\ cur # 0 /\ runs >= 2 /\ ReturnedOk
    /\ Proc.program = <<LoadVar(1, "x"), Store("y", 1)>>
    /\ DOMAIN Proc.variables = {"x", "y"}
    /\ Proc.variables["y"] = Number(F(1))
    /\ Proc.variables["x"] = Number(F(1))

\* C15: after any sequence of spawn calls the k-th spawned process, counted
\* from 0, has id k: ids are pairwise distinct, dense from 0 and equal to the
\* position in the collection; spawn appends one process and changes neither
\* the id nor the state of any process spawned earlier.
C15_SpawnIds ==
    /\ [](/\ \A k \in 1 .. Len(processes) : processes[k].pid = k - 1
          /\ \A j, k \in 1 .. Len(processes) :
               j # k => processes[j].pid # processes[k].pid)
    /\ [][Len(processes') # Len(processes) =>
            /\ Len(processes') = Len(processes) + 1
            /\ processes'[Len(processes')] = ProcessNew(Len(processes))
            /\ \A k \in 1 .. Len(processes) : processes'[k] = processes[k]
         ]_vars

\* a second process was spawned after the first one had run a program
C15_Witness ==
    /\ Len(processes) >= 2
    /\ processes[1].variables # <<>>
    /\ processes[2] = ProcessNew(1)

\* the number of calls of allocate_register the lowering of a node makes
RECURSIVE Allocs(_), BlockAllocs(_)
Allocs(n) ==
    CASE n.node \in {"NumberLiteral", "StringLiteral", "Variable"} -> 1
      [] n.node = "BinaryOp" -> Allocs(n.left) + Allocs(n.right) + 1
      [] n.node = "Assignment" -> Allocs(n.value)
      [] n.node = "Block" -> 1 + BlockAllocs(n.statements)
      [] n.node = "If" ->
            Allocs(n.condition) + Allocs(n.then_branch)
            + (IF n.else_branch # NoElse THEN Allocs(n.else_branch) ELSE 0) + 1
      [] n.node = "While" -> Allocs(n.condition) + Allocs(n.body) + 1

BlockAllocs(statements) ==
    IF statements = <<>> THEN 0
    ELSE Allocs(Head(statements)) + BlockAllocs(Tail(statements))

\* for every expression node of a tree, the index of the instruction computing
\* it and the register a never-reusing allocator gives it, when the tree's
\* code starts at index base after regs allocations
RECURSIVE Allocated(_, _, _), BlockAllocated(_, _, _)
Allocated(n, base, regs) ==
    CASE n.node \in {"NumberLiteral", "StringLiteral", "Variable"} ->
            {[at |-> base, reg |-> regs]}
      [] n.node = "BinaryOp" ->
            {[at |-> base + CodeLen(n) - 1, reg |-> regs + Allocs(n) - 1]}
            \cup Allocated(n.left, base, regs)
            \cup Allocated(n.right, base + CodeLen(n.left), regs + Allocs(n.left))
      [] n.node = "Assignment" -> Allocated(n.value, base, regs)
      [] n.node = "Block" -> BlockAllocated(n.statements, base, regs + 1)
      [] n.node = "If" ->
            LET jf == base + CodeLen(n.condition)
                jmp == jf + 1 + CodeLen(n.then_branch)
            IN  Allocated(n.condition, base, regs)
                \cup Allocated(n.then_branch, jf + 1, regs + Allocs(n.condition))
                \cup (IF n.else_branch # NoElse
                      THEN Allocated(n.else_branch, jmp + 1,
                                     regs + Allocs(n.condition) + Allocs(n.then_branch))
                      ELSE {})
      [] n.node = "While" ->
            LET jf == base + CodeLen(n.condition)
            IN  Allocated(n.condition, base, regs)
                \cup Allocated(n.body, jf + 1, regs + Allocs(n.condition))

BlockAllocated(statements, base, regs) ==
    IF statements = <<>> THEN {}
    ELSE Allocated(Head(statements), base, regs)
         \cup BlockAllocated(Tail(statements), base + CodeLen(Head(statements)),
                             regs + Allocs(Head(statements)))

\* the indices of the instructions that write a register
Writers ==
    {i \in 0 .. Len(gen.instructions) - 1 :
        Code(i).op \in {"Load", "LoadVar", "Add", "Sub", "Mul", "Div"}}

\* C16: the generator never reuses a register: the n-th allocation returns
\* index n - 1, so the instruction computing an expression node writes the
\* register numbered by the allocations made before it; next_register equals
\* the number of allocations made; and no two instructions of the output have
\* the same destination register.
C16_NoRegisterReuse ==
    ast # NotCompiled =>
        /\ gen.next_register = Allocs(ast.root)
        /\ ast.reg < gen.next_register
        /\ \A x \in Allocated(ast.root, 0, 0) :
             /\ x.at \in Writers
             /\ Dest(Code(x.at)) = x.reg
        /\ \A i \in Writers : \E x \in Allocated(ast.root, 0, 0) : x.at = i
        /\ \A i, j \in Writers :
             /\ i # j => Dest(Code(i)) # Dest(Code(j))
             /\ i < j => Dest(Code(i)) < Dest(Code(j))
             /\ Dest(Code(i)) < gen.next_register

\* the generator has compiled the counting loop: ten allocations, seven of
\* them for instructions
C16_Witness ==
    /\ ast # NotCompiled
    /\ ast.root = WhileCountAst
    /\ gen.next_register = 10
    /\ Cardinality(Writers) = 7

\* C17: a store binds the name to the value of the register, overwriting any
\* prior binding, and changes no binding of another name and no register;
\* nothing but a store changes a process's variables; load-variable of a
\* bound name puts the name's current binding in the register.  So after any
\* sequence of stores, load-variable reads the value of the most recent
\* store to the name.
C17_LastWriteWins ==
    [][/\ (Executes("Store") /\ InFile(Proc, Instr.reg)) =>
            /\ DOMAIN ProcNext.variables = DOMAIN Proc.variables \cup {Instr.name}
            /\ ProcNext.variables[Instr.name] = Proc.registers[Instr.reg]
            /\ \A n \in DOMAIN Proc.variables \ {Instr.name} :
                 ProcNext.variables[n] = Proc.variables[n]
            /\ ProcNext.registers = Proc.registers
            /\ pc' = "running"
       /\ \A k \in 1 .. Len(processes) :
            ~(Executes("Store") /\ k = cur) =>
                processes'[k].variables = processes[k].variables
       /\ (Executes("LoadVar") /\ Instr.name \in DOMAIN Proc.variables
           /\ InFile(Proc, Instr.reg)) =>
            /\ ProcNext.registers = [Proc.registers EXCEPT
                                       ![Instr.reg] = Proc.variables[Instr.name]]
            /\ pc' = "running"
      ]_vars

\* x was stored 0, then 1, then 2, then 3, and the load-variable just executed read 3
C17_Witness ==
    /\ cur # 0 /\ pc = "running" /\ trace # <<>>
    /\ loaded[cur] # NotCompiled /\ loaded[cur].root = WhileCountAst
    /\ LastInstr.op = "LoadVar" /\ LastInstr.name = "x"
    /\ Proc.variables["x"] = Number(F(3))
    /\ Proc.registers[LastInstr.reg] = Number(F(3))

\* a run is under way whose halt flag is set
C18_Halted == pc = "running" /\ Proc.halt

\* executing halt sets the flag and changes neither registers nor variables;
\* with the flag set the run fetches nothing more, and it ends by returning
\* Ok with the process as it was
C18_HaltStops ==
    /\ Executes("Halt") =>
         /\ ProcNext.halt
         /\ ProcNext.registers = Proc.registers
         /\ ProcNext.variables = Proc.variables
         /\ pc' = "running"
    /\ C18_Halted =>
         /\ ~Stepping
         /\ pc' # pc => (pc' = "ready" /\ result' = Ok /\ processes' = processes)

\* a run that executed halt has returned Ok; the store after the halt did not run
C18_Witness ==
    /\ cur # 0 /\ ReturnedOk /\ Proc.halt /\ trace # <<>>
    /\ Proc.program = <<Load(0, Number(F(1))), Halt, Store("x", 0)>>
    /\ LastIndex = 1
    /\ Proc.registers[0] = Number(F(1))
    /\ Proc.variables = <<>>

\* C18: when a halt instruction executes, the halt flag is set and no
\* instruction at any index is executed afterwards in that run; run returns
\* success, with registers and variables as they were when halt executed.
C18_Halt == [][C18_HaltStops]_vars /\ (C18_Halted ~> (ReturnedOk /\ Proc.halt))

\* the tree is a block of two statements, the first a conditional with else-branch
IfElseThenStatement(root) ==
    /\ root.node = "Block"
    /\ Len(root.statements) = 2
    /\ root.statements[1].node = "If"
    /\ root.statements[1].else_branch # NoElse

\* C19: in a block where a conditional with an else-branch is followed by
\* another statement, after a taken then-branch execution resumes at the
\* first instruction that follows the else-branch's last instruction: the
\* instruction fetched after the jump that ends the then-branch is the first
\* instruction of the following statement.
C19_FollowingStatementRuns ==
    (cur # 0 /\ loaded[cur] # NotCompiled /\ IfElseThenStatement(loaded[cur].root)) =>
        \A s \in Sites(loaded[cur].root, 0), k \in 1 .. Len(trace) - 1 :
            (/\ s.kind = "IfElse" /\ s.first = 0
             /\ s.last = CodeLen(loaded[cur].root.statements[1])
             /\ trace[k] = s.jmp)
                => trace[k + 1] = s.last

\* if (1) { y := 1 } else { y := 1 }; w := 3 has run to its end: the load of
\* 3 was skipped and w holds Empty
C19_Skipped ==
    /\ cur # 0 /\ ReturnedOk /\ loaded[cur] # NotCompiled
    /\ loaded[cur].root =
         Block(<<If(Num(1), Assignment("y", Num(1)), Assignment("y", Num(1))),
                 Assignment("w", Num(3))>>)
    /\ trace = <<0, 1, 2, 3, 4, 8>>
    /\ Proc.variables["w"] = Empty

\* C20: on every iteration of a compiled loop, the second and later ones
\* included, every instruction of the condition expression is executed,
\* beginning with the instruction at loop_start, before the loop's
\* jump-if-false tests the condition register: each fetch of the
\* jump-if-false is preceded in the trace by the fetches of all the
\* condition's instructions in order.
C20_ConditionReevaluated ==
    (cur # 0 /\ loaded[cur] # NotCompiled) =>
        \A s \in Sites(loaded[cur].root, 0), k \in 1 .. Len(trace) :
            (s.kind = "While" /\ trace[k] = s.jf) =>
                /\ k > s.jf - s.first
                /\ \A d \in 1 .. s.jf - s.first : trace[k - d] = s.jf - d

\* x := 1; while (x) { x := 0 }: x is 0 and the jump-if-false fetched last
\* still found its register truthy
C20_StaleTest ==
    /\ cur # 0 /\ loaded[cur] # NotCompiled /\ loaded[cur].root = StaleLoopAst
    /\ pc = "running" /\ Len(trace) > 6
    /\ LastInstr.op = "JmpFalse"
    /\ conds[Len(conds)]
    /\ Proc.variables["x"] = Number(F(0))

\* the indices of a loop: its condition, its jump-if-false, its body and its back-jump
LoopRange(s) == s.first .. s.jmp

\* C21: absent an error or halt, a compiled loop is left only when its own
\* jump-if-false finds the condition falsy, whatever statements the body
\* contains: when an instruction of the loop is followed by an instruction
\* outside the loop, or is the last one of a run that returned Ok without
\* halting, that instruction is the loop's jump-if-false and it found its
\* register falsy.
C21_LoopLeftByTest ==
    (cur # 0 /\ loaded[cur] # NotCompiled) =>
        \A s \in Sites(loaded[cur].root, 0) :
            s.kind = "While" =>
                /\ \A k \in 1 .. Len(trace) - 1 :
                     (trace[k] \in LoopRange(s) /\ trace[k + 1] \notin LoopRange(s))
                         => (trace[k] = s.jf /\ ~conds[k])
                /\ (ReturnedOk /\ ~Proc.halt /\ trace # <<>> /\ LastIndex \in LoopRange(s))
                         => (LastIndex = s.jf /\ ~conds[Len(trace)])

\* x := 0; while (2 - x) { x := x + 1; if (1) { y := 1 } else { } }; w := x
\* has run to its end after one pass through the body: the jump that ends the
\* then-branch skipped the back-jump at index 15, and w is 1
C21_LeftEarly ==
    /\ cur # 0 /\ ReturnedOk /\ loaded[cur] # NotCompiled
    /\ loaded[cur].root =
         Block(<<Assignment("x", Num(0)),
                 While(BinaryOp(Num(2), "Subtract", Variable("x")),
                       Block(<<Assignment("x", BinaryOp(Variable("x"), "Add", Num(1))),
                               If(Num(1), Assignment("y", Num(1)), Block(<<>>))>>)),
                 Assignment("w", Variable("x"))>>)
    /\ trace = <<0, 1, 2, 3, 4, 5, 6, 7, 8, 9, 10, 11, 12, 13, 14, 16, 17>>
    /\ Proc.variables["w"] = Number(F(1))

\* position k of the trace is the jump-if-false of site s finding its register falsy
TestsFalsy(s, k) == trace[k] = s.jf /\ ~conds[k]

\* C22: when a loop's condition tests falsy, none of the body instructions nor
\* the back-jump is executed in that pass and the next instruction executed
\* is the one immediately after the back-jump; when a conditional without
\* else-branch tests falsy, none of the then-branch instructions is executed
\* and the next instruction executed is the one immediately after the
\* then-branch.  If that index is the program's length the run returns Ok.
C22_FalsySkips ==
    (cur # 0 /\ loaded[cur] # NotCompiled) =>
        \A s \in Sites(loaded[cur].root, 0), k \in 1 .. Len(trace) :
            (s.kind \in {"While", "If"} /\ TestsFalsy(s, k)) =>
                /\ k < Len(trace) => trace[k + 1] = s.last
                /\ (k = Len(trace) /\ pc # "running") =>
                       (ReturnedOk /\ s.last = Len(Proc.program))
                /\ (k = Len(trace) /\ pc = "running") => Proc.ip = s.last

\* a loop whose body ends with a conditional without else-branch has run to
\* its end: the conditional tested falsy and the back-jump came next, the
\* loop tested falsy after two passes and the statement after it came next
C22_Witness ==
    /\ cur # 0 /\ loaded[cur] # NotCompiled /\ ReturnedOk
    /\ \E w \in Sites(loaded[cur].root, 0), i \in Sites(loaded[cur].root, 0) :
         /\ w.kind = "While" /\ i.kind = "If"
         /\ w.jf < i.first /\ i.last = w.jmp
         /\ w.last < Len(Proc.program)
         /\ \E k \in 1 .. Len(trace) - 1 :
              TestsFalsy(i, k) /\ trace[k + 1] = w.jmp
         /\ \E k \in 8 .. Len(trace) - 1 :
              TestsFalsy(w, k) /\ trace[k + 1] = w.last

\* the nodes for which generate returns a register it allocates and never writes
ReturnsFresh(n) ==
    \/ n.node \in {"If", "While"}
    \/ n.node = "Block" /\ n.statements = <<>>

\* the register generate returns for a node lowered after regs allocations:
\* the last one allocated for a literal, a variable, a binary operation, a
\* conditional or a loop; that of the value for an assignment; its own for an
\* empty block and that of the last statement for a non-empty one
RECURSIVE Returned(_, _)
Returned(n, regs) ==
    CASE n.node \in {"NumberLiteral", "StringLiteral", "Variable", "BinaryOp", "If", "While"} ->
            regs + Allocs(n) - 1
      [] n.node = "Assignment" -> Returned(n.value, regs)
      [] n.node = "Block" ->
            IF n.statements = <<>> THEN regs
            ELSE LET count == Len(n.statements)
                 IN  Returned(n.statements[count],
                              regs + 1 + BlockAllocs(SubSeq(n.statements, 1, count - 1)))

\* every node of a tree with the index where its code starts, the number of
\* allocations made before it and the register generate returns for it
RECURSIVE Results(_, _, _), BlockResults(_, _, _)
Results(n, base, regs) ==
    {[node |-> n, first |-> base, regs |-> regs, reg |-> Returned(n, regs)]}
    \cup
    CASE n.node \in {"NumberLiteral", "StringLiteral", "Variable"} -> {}
      [] n.node = "BinaryOp" ->
            Results(n.left, base, regs)
            \cup Results(n.right, base + CodeLen(n.left), regs + Allocs(n.left))
      [] n.node = "Assignment" -> Results(n.value, base, regs)
      [] n.node = "Block" -> BlockResults(n.statements, base, regs + 1)
      [] n.node = "If" ->
            LET jf == base + CodeLen(n.condition)
                jmp == jf + 1 + CodeLen(n.then_branch)
            IN  Results(n.condition, base, regs)
                \cup Results(n.then_branch, jf + 1, regs + Allocs(n.condition))
                \cup (IF n.else_branch # NoElse
                      THEN Results(n.else_branch, jmp + 1,
                                   regs + Allocs(n.condition) + Allocs(n.then_branch))
                      ELSE {})
      [] n.node = "While" ->
            LET jf == base + CodeLen(n.condition)
            IN  Results(n.condition, base, regs)
                \cup Results(n.body, jf + 1, regs + Allocs(n.condition))

BlockResults(statements, base, regs) ==
    IF statements = <<>> THEN {}
    ELSE Results(Head(statements), base, regs)
         \cup BlockResults(Tail(statements), base + CodeLen(Head(statements)),
                           regs + Allocs(Head(statements)))

\* C23: the register returned by generate for a conditional, a loop or an
\* empty block is freshly allocated and is not the destination of any
\* instruction of the generated program, so it holds Empty throughout every
\* run; a non-empty block returns the register returned by its last
\* statement, and an assignment returns the register of its value expression
\* after emitting the store.  The register returned for the whole tree and
\* the registers the emitted stores and jump-if-false instructions name are
\* those.
C23_ReturnedRegisters ==
    /\ ast # NotCompiled =>
         /\ ast.reg = Returned(ast.root, 0)
         /\ \A x \in Results(ast.root, 0, 0) :
              /\ ReturnsFresh(x.node) =>
                   /\ x.reg < gen.next_register
                   /\ \A i \in Writers : Dest(Code(i)) # x.reg
              /\ x.node.node = "Assignment" =>
                   Code(x.first + CodeLen(x.node.value)) = Store(x.node.name, x.reg)
              /\ x.node.node \in {"If", "While"} =>
                   /\ Code(x.first + CodeLen(x.node.condition)).op = "JmpFalse"
                   /\ Code(x.first + CodeLen(x.node.condition)).reg
                        = Returned(x.node.condition, x.regs)
    /\ (cur # 0 /\ loaded[cur] # NotCompiled) =>
         \A x \in Results(loaded[cur].root, 0, 0) :
             ReturnsFresh(x.node) =>
                 /\ InFile(Proc, x.reg)
                 /\ Proc.registers[x.reg] = Empty

\* while ({}) { y := 1 } has run: the loop tested the register of the empty
\* block, found it Empty and left; generate returned the loop's own register
C23_Witness ==
    /\ cur # 0 /\ loaded[cur] # NotCompiled /\ ReturnedOk
    /\ loaded[cur].root = While(Block(<<>>), Assignment("y", Num(1)))
    /\ ast = loaded[cur] /\ ast.reg = 2 /\ gen.next_register = 3
    /\ trace = <<0>>
    /\ LastInstr = JmpFalse(0, 4)
    /\ Proc.registers[0] = Empty /\ Proc.registers[2] = Empty

\* C24: with several processes spawned in one VM and run one after another in
\* any order, the start of a run of process p and every step of it change
\* only p's own register file, variable store, instruction pointer and halt
\* flag: every other process is unchanged, p keeps its id and its program,
\* and a name stored in p and undefined in another process stays undefined
\* there.
C24_Isolation ==
    [][(pc = "running" \/ pc' = "running") =>
          /\ Len(processes') = Len(processes)
          /\ cur' \in 1 .. Len(processes)
          /\ \A k \in 1 .. Len(processes) :
               k # cur' => processes'[k] = processes[k]
          /\ processes'[cur'].pid = processes[cur'].pid
          /\ processes'[cur'].program = processes[cur'].program
          /\ Executes("Store") =>
               \A k \in 1 .. Len(processes) :
                   (k # cur /\ Instr.name \notin DOMAIN processes[k].variables)
                       => Instr.name \notin DOMAIN processes'[k].variables
      ]_vars

\* process 0 ran x := 1; then process 1 ran y := x and failed because x is
\* undefined there; process 0 still has x == 1 and where its run left it
C24_Witness ==
    /\ Len(processes) >= 2 /\ cur = 2
    /\ pc = "ready" /\ result = UndefinedVariable(1, "x")
    /\ processes[2].variables = <<>>
    /\ processes[1].program = <<Load(0, Number(F(1))), Store("x", 0)>>
    /\ processes[1].variables["x"] = Number(F(1))
    /\ processes[1].registers[0] = Number(F(1))
    /\ processes[1].ip = 2

\* C25: in a hand-written program, for every target in 0 .. program length,
\* target 0 included, executing jump-if-false(reg, target) on a falsy
\* register does not abort the run, and the instruction pointer after the
\* loop's advance is target: the next instruction executed is the one at
\* index target.
C25_JmpFalseAnyTarget ==
    [][(/\ Executes("JmpFalse")
        /\ loaded[cur] = NotCompiled
        /\ InFile(Proc, Instr.reg)
        /\ ~Truthy(Proc.registers[Instr.reg])
        /\ Instr.dest \in 0 .. Len(Proc.program))
           => (/\ pc' = "running"
               /\ result' = NoResult
               /\ ProcNext.ip = Instr.dest)
      ]_vars

\* r0 := 0.0; jump-if-false r0, 0; ... : the run was aborted by the panic of
\* `dest - 1` at the jump-if-false
C25_Aborted ==
    /\ cur # 0 /\ pc = "aborted" /\ result = Panic
    /\ Proc.program = <<Load(0, Number(F(0))), JmpFalse(0, 0), Store("x", 0), Store("y", 0)>>
    /\ trace = <<0, 1>>

\* the register indices an instruction names, as destination or operand
Regs(i) ==
    CASE i.op \in {"Load", "LoadVar", "Store", "JmpFalse", "DbgPrintReg"} -> {i.reg}
      [] i.op \in {"Add", "Sub", "Mul", "Div"} -> {i.dest, i.reg1, i.reg2}
      [] OTHER -> {}

\* every register an emitted instruction names was allocated before the
\* instruction was emitted: an instruction that writes a register is emitted
\* right after the allocation of its destination and its operands are lower;
\* a store names a register allocated for its value, a jump-if-false one
\* allocated for its condition; and all are below next_register at the end
C26_EmittedBelowCounter ==
    ast # NotCompiled =>
        /\ \A j \in 0 .. Len(gen.instructions) - 1 :
             /\ \A r \in Regs(Code(j)) : r >= 0 /\ r < gen.next_register
             /\ j \in Writers => \A r \in Regs(Code(j)) : r <= Dest(Code(j))
        /\ \A x \in Results(ast.root, 0, 0) :
             /\ x.node.node = "Assignment" =>
                  Code(x.first + CodeLen(x.node.value)).reg
                      < x.regs + Allocs(x.node.value)
             /\ x.node.node \in {"If", "While"} =>
                  Code(x.first + CodeLen(x.node.condition)).reg
                      < x.regs + Allocs(x.node.condition)

\* a generated program is loaded with next_register slots, every instruction
\* of it names registers of the file, and no run of it is aborted
C26_RunsInsideFile ==
    (cur # 0 /\ loaded[cur] # NotCompiled) =>
        /\ DOMAIN Proc.registers = 0 .. gen.next_register - 1
        /\ Proc.program = gen.instructions
        /\ \A j \in 1 .. Len(Proc.program) :
             \A r \in Regs(Proc.program[j]) : InFile(Proc, r)
        /\ pc # "aborted"
        /\ result # Panic

\* C26: every register index appearing in any emitted instruction,
\* destination or operand, is strictly less than next_register, when the
\* instruction is emitted and afterwards; so when the program is loaded with
\* a register file of next_register slots, no instruction of any run reads
\* or writes a register outside the file.
C26_RegistersInFile == C26_EmittedBelowCounter /\ C26_RunsInsideFile

\* x := (2 - 0) + (2 * 2) has run: the register allocated last, index 6, holds 6
C26_Witness ==
    /\ cur # 0 /\ loaded[cur] # NotCompiled /\ ReturnedOk
    /\ loaded[cur].root =
         Assignment("x", BinaryOp(BinaryOp(Num(2), "Subtract", Num(0)), "Add",
                                  BinaryOp(Num(2), "Multiply", Num(2))))
    /\ gen.next_register = 7
    /\ Proc.registers[6] = Number(F(6))
    /\ Proc.variables["x"] = Number(F(6))

\* the program of the current process was generated from a tree without loop node
LoopFree ==
    /\ cur # 0 /\ loaded[cur] # NotCompiled
    /\ \A s \in Sites(loaded[cur].root, 0) : s.kind # "While"

\* a run of a loop-free generated program is under way, or has ended
C27_Running == LoopFree /\ pc = "running"
C27_Ended == LoopFree /\ pc = "ready" /\ result # NoResult /\ result # Panic

\* the fetched indices strictly increase, so there are no more than the program has
C27_Increasing ==
    LoopFree =>
        /\ \A k \in 1 .. Len(trace) - 1 : trace[k] < trace[k + 1]
        /\ Len(trace) <= Len(Proc.program)
        /\ pc = "running" => (trace # <<>> => Proc.ip > LastIndex)

\* C27: for every tree that contains no loop node, run on the generated
\* program always terminates, with success or an error: the instruction
\* pointer strictly increases from one executed instruction to the next, so
\* at most program-length instructions are executed.
C27_LoopFreeTerminates == []C27_Increasing /\ (C27_Running ~> C27_Ended)

\* a loop-free program with nested conditionals has run to its end; a
\* jump-if-false that found its register falsy and an unconditional jump
\* were executed
C27_Witness ==
    /\ LoopFree /\ ReturnedOk
    /\ \E j, k \in 1 .. Len(trace) :
         /\ Proc.program[trace[j] + 1].op = "JmpFalse" /\ ~conds[j]
         /\ Proc.program[trace[k] + 1].op = "Jmp"
         /\ j < k

====
